---- MODULE Spec2Model ----
(***************************************************************************)
(* update-cloudfront-cert.py: resolve a CloudFront distribution by its     *)
(* comment, fetch its configuration and ETag, replace the ViewerCertificate*)
(* and Aliases blocks, write the document to a fixed temporary file and    *)
(* submit it with update-distribution --if-match.                          *)
(*                                                                         *)
(* A JSON object (text) and a Python dict are both sequences of            *)
(* <<key, value>> pairs; a dict has no key twice and keeps insertion order.*)
(* Every value is a record.                                                *)
(***************************************************************************)
EXTENDS Integers, Sequences, FiniteSets, TLC

\* ---------------------------------------------------------------- bounds
MaxExternal == 2      \* out-of-band modifications by the external actor
MaxDists == 2         \* distributions in the account

\* ------------------------------------------------- configuration (l.12-14)
ENV_UNSET == "<unset>"                         \* os.environ.get(...) is None
DISTRIBUTION_COMMENT == "sharespace frontend distribution"
DOMAIN_NAMES == <<"itsonlycastlesburning.com", "*.itsonlycastlesburning.com">>

Proc == {1, 2}                                 \* invocations of the script
EnvValues == {ENV_UNSET, "", "arn:aws:acm:cert/abc"}
OtherComment == "some other distribution"
NoFile == <<>>

\* ------------------------------------------------------- dict and JSON
Keys(d) == {d[i][1] : i \in DOMAIN d}
HasKey(d, k) == k \in Keys(d)
Get(d, k) == d[CHOOSE i \in DOMAIN d : d[i][1] = k /\ \A j \in DOMAIN d : d[j][1] = k => j <= i][2]

\* d[k] = v on a Python dict: an existing key keeps its position
DictSet(d, k, v) ==
    IF HasKey(d, k)
    THEN [i \in DOMAIN d |-> IF d[i][1] = k THEN <<k, v>> ELSE d[i]]
    ELSE Append(d, <<k, v>>)

\* json.loads of an object: members are inserted in text order
RECURSIVE LoadsFrom(_, _)
LoadsFrom(text, d) ==
    IF text = <<>> THEN d
    ELSE LoadsFrom(Tail(text), DictSet(d, Head(text)[1], Head(text)[2]))
json_loads(text) == LoadsFrom(text, <<>>)

\* json.dump of a dict: one member per key, in dict order
json_dump(d) == [i \in 1..Len(d) |-> <<d[i][1], d[i][2]>>]

\* ------------------------------------------------- the mutation (l.66-78)
NewViewerCertificate(arn) ==
    [ACMCertificateArn |-> arn,
     SSLSupportMethod |-> "sni-only",
     MinimumProtocolVersion |-> "TLSv1.2_2021",
     CertificateSource |-> "acm"]

NewAliases(domains) == [Quantity |-> Len(domains), Items |-> domains]

\* variant: a new document is built from the two blocks only
Mutate_Rebuild(config, arn, domains) ==
    << <<"ViewerCertificate", NewViewerCertificate(arn)>>,
       <<"Aliases", NewAliases(domains)>> >>

\* variant: the new certificate fields are merged into the existing block
Mutate_MergeViewerCertificate(config, arn, domains) ==
    LET new == NewViewerCertificate(arn)
        old == IF HasKey(config, "ViewerCertificate")
               THEN Get(config, "ViewerCertificate") ELSE new
        merged == [f \in DOMAIN old \cup DOMAIN new |->
                     IF f \in DOMAIN new THEN new[f] ELSE old[f]]
    IN DictSet(DictSet(config, "ViewerCertificate", merged),
               "Aliases", NewAliases(domains))

\* variant: the domain names are added to the aliases already configured
Mutate_ExtendAliases(config, arn, domains) ==
    LET old == IF HasKey(config, "Aliases") /\ Get(config, "Aliases").Quantity > 0
               THEN Get(config, "Aliases").Items ELSE <<>>
    IN DictSet(DictSet(config, "ViewerCertificate", NewViewerCertificate(arn)),
               "Aliases", NewAliases(old \o domains))

Mutate(config, arn, domains) ==
    DictSet(DictSet(config, "ViewerCertificate", NewViewerCertificate(arn)),
            "Aliases", NewAliases(domains))

\* ------------------------------------------------ the resolver (l.34-38)
\* variant: the loop has no break, the last matching entry wins
RECURSIVE Resolve_NoBreak(_)
Resolve_NoBreak(items) ==
    IF items = <<>> THEN ""
    ELSE IF Resolve_NoBreak(Tail(items)) # "" THEN Resolve_NoBreak(Tail(items))
    ELSE IF Head(items).Comment = DISTRIBUTION_COMMENT THEN Head(items).Id
    ELSE ""

RECURSIVE Resolve(_)
Resolve(items) ==
    IF items = <<>> THEN ""
    ELSE IF Head(items).Comment = DISTRIBUTION_COMMENT THEN Head(items).Id
    ELSE Resolve(Tail(items))

\* ------------------------------------------- the remote service's state
Scalar(s) == [Scalar |-> s]
DefaultCert ==
    [CloudFrontDefaultCertificate |-> "true",
     MinimumProtocolVersion |-> "TLSv1",
     CertificateSource |-> "cloudfront"]
OldCert ==
    [ACMCertificateArn |-> "arn:aws:acm:cert/old",
     Certificate |-> "arn:aws:acm:cert/old",
     SSLSupportMethod |-> "vip",
     MinimumProtocolVersion |-> "TLSv1",
     CertificateSource |-> "acm"]
ConfBare ==
    << <<"CallerReference", Scalar("ref")>>, <<"Enabled", Scalar("true")>> >>
ConfDefault ==
    << <<"CallerReference", Scalar("ref")>>,
       <<"Aliases", [Quantity |-> 0]>>,
       <<"ViewerCertificate", DefaultCert>>,
       <<"Enabled", Scalar("true")>> >>
ConfOld ==
    << <<"CallerReference", Scalar("ref")>>,
       <<"Aliases", [Quantity |-> 1, Items |-> <<"old.example.com">>]>>,
       <<"ViewerCertificate", OldCert>>,
       <<"Enabled", Scalar("true")>> >>
InitConfigs == {ConfBare, ConfDefault, ConfOld}

DistIds == <<"E1", "E2", "E3", "E4">>

\* what the external actor may write into a distribution's configuration
ExternalEdits ==
    { <<"Enabled", Scalar("false")>>,
      <<"Aliases", [Quantity |-> 1, Items |-> <<"ext.example.com">>]>> }

VARIABLES
    run,        \* run[p]: the local state of invocation p of the script
    dists,      \* the account's distributions, in listing order
    tmpfile,    \* the text in /tmp/dist-config-updated.json, NoFile when absent
    extCount    \* modifications made so far by the external actor

vars == <<run, dists, tmpfile, extCount>>

NoErr == [prefix |-> "", detail |-> ""]
NoCall == [id |-> "", ifmatch |-> 0, doc |-> <<>>]

\* the state of an invocation before its first statement
Fresh(arn, pc0) ==
    [pc |-> pc0,
     CERT_ARN |-> arn,
     dist_id |-> "",                 \* None
     config |-> <<>>,
     configIsDict |-> TRUE,
     etag |-> 0,
     exit |-> -1,                    \* -1 while the process runs
     err |-> NoErr,                  \* the error line printed
     \* history of the run, read by the properties only
     calls |-> [list |-> 0, get |-> 0, update |-> 0],
     listOutcome |-> "",             \* how list-distributions ended
     getOutcome |-> "",              \* how get-distribution-config ended
     resolved |-> "",                \* the identifier the resolver returned
     from |-> "",                    \* the step at which the process ended
     okCalls |-> {},
     fetched |-> NoCall,             \* what get-distribution-config returned
     sent |-> NoCall,                \* what update-distribution was given
     tokenAtUpdate |-> 0,            \* the service's token when it got the update
     stderr |-> "",
     applied |-> FALSE,
     reported |-> FALSE,
     wroteTmp |-> FALSE,
     mutated |-> FALSE]

DistSeqs ==
    UNION { [1..n -> [Comment : {DISTRIBUTION_COMMENT, OtherComment},
                      config : InitConfigs]] : n \in 0..MaxDists }

InitDists(ds) ==
    [i \in DOMAIN ds |->
        [Id |-> DistIds[i], Comment |-> ds[i].Comment,
         config |-> ds[i].config, etag |-> 1]]

\* one invocation; the second one is never started
Init ==
    /\ \E arn \in EnvValues :
          run = [p \in Proc |-> IF p = 1 THEN Fresh(arn, "check_env")
                                ELSE Fresh(arn, "off")]
    /\ \E ds \in DistSeqs : dists = InitDists(ds)
    /\ tmpfile = NoFile
    /\ extCount = 0

\* variant: the process ends without an exit status argument
Exit_NoStatus(r, code, line) ==
    [r EXCEPT !.pc = "done", !.exit = 0, !.err = line, !.from = r.pc]

\* variant: the handler of l.62-64 prints the error and does not exit
Exit_PrintAndContinue(r, code, line) ==
    IF r.pc = "get_config"
    THEN [r EXCEPT !.pc = "mutate", !.err = line]
    ELSE [r EXCEPT !.pc = "done", !.exit = code, !.err = line, !.from = r.pc]

\* variant: the generic handler of l.120-122 ends the process without status
Exit_GenericHandlerNoStatus(r, code, line) ==
    [r EXCEPT !.pc = "done", !.err = line, !.from = r.pc,
              !.exit = IF line.prefix = "Error" THEN 0 ELSE code]

\* variant: a failed update is sent again, without end
Exit_RetryUpdateForever(r, code, line) ==
    IF r.pc = "update" /\ code = 1
    THEN [r EXCEPT !.calls.update = 1, !.applied = FALSE, !.stderr = ""]
    ELSE [r EXCEPT !.pc = "done", !.exit = code, !.err = line, !.from = r.pc]

\* variant: a rejected update fetches the configuration again and retries
Exit_RefreshAndRetry(r, code, line) ==
    IF r.pc = "update" /\ code = 1
    THEN [r EXCEPT !.pc = "get_config"]
    ELSE [r EXCEPT !.pc = "done", !.exit = code, !.err = line, !.from = r.pc]

\* sys.exit(code) or an uncaught exception (Python then exits with code 1)
Exit(r, code, line) ==
    [r EXCEPT !.pc = "done", !.exit = code, !.err = line, !.from = r.pc]

\* variant: only the empty string is treated as missing
CertArnMissing_EmptyOnly(arn) == arn = ""

\* l.16-18
CertArnMissing(arn) == arn \in {ENV_UNSET, ""}

CheckEnv(p) ==
    /\ run[p].pc = "check_env"
    /\ run' = [run EXCEPT ![p] =
                 IF CertArnMissing(@.CERT_ARN)
                 THEN Exit(@, 1, [prefix |-> "Error: ACM_CERTIFICATE_ARN environment variable not set",
                                  detail |-> ""])
                 ELSE [@ EXCEPT !.pc = "list"]]
    /\ UNCHANGED <<dists, tmpfile, extCount>>

\* the listing the service holds
Items == [i \in DOMAIN dists |-> [Id |-> dists[i].Id, Comment |-> dists[i].Comment]]

\* outcomes of `aws cloudfront list-distributions`: the command fails, its
\* output is not the expected JSON, or the listing is printed.  For an account
\* without distributions the output carries no Items list (ok_noitems: the
\* lookup of l.32-35 raises, and l.45 catches it); "ok" with no distribution is
\* a listing whose Items list is empty.
ListOutcomes ==
    {"fail", "malformed"} \cup (IF dists = <<>> THEN {"ok_noitems", "ok"} ELSE {"ok"})

\* l.25-47
ListDistributions(p) ==
    /\ run[p].pc = "list"
    /\ \E o \in ListOutcomes :
         LET r0 == [run[p] EXCEPT !.calls.list = @ + 1,
                                  !.listOutcome = o,
                                  !.okCalls = IF o = "fail" THEN @ ELSE @ \cup {"list"}]
             id == Resolve(Items)
         IN run' = [run EXCEPT ![p] =
              CASE o = "fail" ->
                     Exit(r0, 1, [prefix |-> "Error listing distributions", detail |-> "CalledProcessError"])
                [] o = "malformed" ->
                     Exit(r0, 1, [prefix |-> "Error listing distributions", detail |-> "JSONDecodeError"])
                [] o = "ok_noitems" ->
                     Exit(r0, 1, [prefix |-> "Error listing distributions", detail |-> "Exception"])
                [] o = "ok" ->
                     IF id = ""
                     THEN Exit([r0 EXCEPT !.dist_id = id], 1,
                               [prefix |-> "Error: Could not find distribution with comment",
                                detail |-> DISTRIBUTION_COMMENT])
                     ELSE [r0 EXCEPT !.dist_id = id, !.resolved = id, !.pc = "get_config"]]
    /\ UNCHANGED <<dists, tmpfile, extCount>>

\* ------------------------------------------------ the service's endpoints
IndexOf(id) == CHOOSE i \in DOMAIN dists : dists[i].Id = id
Exists(id) == \E i \in DOMAIN dists : dists[i].Id = id

\* get-distribution-config: the stored document and its current ETag
ServiceGetConfig(id) ==
    [ETag |-> dists[IndexOf(id)].etag,
     DistributionConfig |-> json_dump(dists[IndexOf(id)].config)]

\* update-distribution: the If-Match precondition, then validation
ServiceAccepts(id, ifmatch) == Exists(id) /\ dists[IndexOf(id)].etag = ifmatch

ServiceApply(id, doc) ==
    [dists EXCEPT ![IndexOf(id)] = [@ EXCEPT !.config = doc, !.etag = @ + 1]]

\* l.50-64
GetConfigOutcomes == {"fail", "malformed", "ok", "ok_nondict"}

GetDistributionConfig(p) ==
    /\ run[p].pc = "get_config"
    /\ \E o \in GetConfigOutcomes :
         LET r0 == [run[p] EXCEPT !.calls.get = @ + 1,
                                  !.getOutcome = o,
                                  !.okCalls = IF o = "fail" THEN @ ELSE @ \cup {"get"}]
             dist_response == ServiceGetConfig(r0.dist_id)
             r1 == [r0 EXCEPT !.etag = dist_response.ETag,
                              !.fetched = [id |-> r0.dist_id,
                                           ifmatch |-> dist_response.ETag,
                                           doc |-> dist_response.DistributionConfig],
                              !.pc = "mutate"]
         IN run' = [run EXCEPT ![p] =
              CASE o = "fail" ->
                     Exit(r0, 1, [prefix |-> "Error getting distribution config", detail |-> "CalledProcessError"])
                [] o = "malformed" ->
                     Exit(r0, 1, [prefix |-> "Error getting distribution config", detail |-> "JSONDecodeError"])
                [] o = "ok" ->
                     [r1 EXCEPT !.config = json_loads(dist_response.DistributionConfig)]
                [] o = "ok_nondict" ->
                     \* 'DistributionConfig' is present but is not a JSON object
                     [r1 EXCEPT !.configIsDict = FALSE]]
    /\ UNCHANGED <<dists, tmpfile, extCount>>

\* l.66-82; item assignment on a value that is not a dict raises TypeError
\* outside every try block
MutateConfig(p) ==
    /\ run[p].pc = "mutate"
    /\ run' = [run EXCEPT ![p] =
                 IF @.configIsDict
                 THEN [@ EXCEPT !.config = Mutate(@, run[p].CERT_ARN, DOMAIN_NAMES),
                                !.mutated = TRUE,
                                !.pc = "write_tmp"]
                 ELSE Exit(@, 1, [prefix |-> "Traceback", detail |-> "TypeError"])]
    /\ UNCHANGED <<dists, tmpfile, extCount>>

\* variant: the document is serialized as it was fetched, before the mutation
TmpContent_Fetched(r) == r.fetched.doc

\* what l.85-86 writes to the file
TmpContent(r) == json_dump(r.config)

\* l.84-86; open() may raise OSError, outside every try block
WriteTmp(p) ==
    /\ run[p].pc = "write_tmp"
    /\ \E writable \in BOOLEAN :
         IF writable
         THEN /\ tmpfile' = TmpContent(run[p])
              /\ run' = [run EXCEPT ![p] = [@ EXCEPT !.wroteTmp = TRUE, !.pc = "update"]]
         ELSE /\ tmpfile' = tmpfile
              /\ run' = [run EXCEPT ![p] = Exit(@, 1, [prefix |-> "Traceback", detail |-> "OSError"])]
    /\ UNCHANGED <<dists, extCount>>

\* the arguments of the update-distribution command, l.92-96
\* variant: the update is sent for the first distribution listed
IdArg_First(r) == DistIds[1]
IdArg(r) == r.dist_id
\* variant: the token is read again from the service when the update is sent
IfMatchArg_Refetched(r) == dists[IndexOf(r.dist_id)].etag
IfMatchArg(r) == r.etag
ConfigArg(file) == json_loads(file)

\* variant: the failure is caught by the generic handler of l.120-122
UpdateErrorLine_Generic(stderr) == [prefix |-> "Error", detail |-> "Exception"]

\* the line printed by the handler of l.117-119
UpdateErrorLine(stderr) == [prefix |-> "Error updating distribution", detail |-> stderr]

\* l.89-122
\*   transport: the command fails before the service sees the request
\*   lost:      the service applies the update and the command then fails
\*              (the answer does not arrive)
\*   request:   the service checks If-Match, validates, applies and answers;
\*              invalid = the document is rejected by validation,
\*              report  = the answer is parsed and printed without exception
UpdateDistribution(p) ==
    /\ run[p].pc = "update"
    /\ \E o \in {"transport", "lost", "request"}, valid \in BOOLEAN, report \in BOOLEAN :
         LET id == IdArg(run[p])
             ifmatch == IfMatchArg(run[p])
             doc == ConfigArg(tmpfile)
             accepted == ServiceAccepts(id, ifmatch)
             r0 == [run[p] EXCEPT !.calls.update = @ + 1,
                                  !.sent = [id |-> id, ifmatch |-> ifmatch, doc |-> doc],
                                  !.tokenAtUpdate = IF Exists(id) THEN dists[IndexOf(id)].etag ELSE 0]
         IN CASE o = "transport" ->
                   /\ valid /\ report
                   /\ dists' = dists
                   /\ run' = [run EXCEPT ![p] =
                        Exit([r0 EXCEPT !.stderr = "Could not connect to the endpoint URL"],
                             1, UpdateErrorLine("Could not connect to the endpoint URL"))]
              [] o = "lost" ->
                   /\ accepted /\ valid /\ report
                   /\ dists' = ServiceApply(id, doc)
                   /\ run' = [run EXCEPT ![p] =
                        Exit([r0 EXCEPT !.applied = TRUE, !.stderr = "Read timeout on endpoint URL"],
                             1, UpdateErrorLine("Read timeout on endpoint URL"))]
              [] o = "request" /\ ~accepted ->
                   /\ valid /\ report
                   /\ dists' = dists
                   /\ run' = [run EXCEPT ![p] =
                        Exit([r0 EXCEPT !.stderr = "PreconditionFailed"],
                             1, UpdateErrorLine("PreconditionFailed"))]
              [] o = "request" /\ accepted /\ ~valid ->
                   /\ report
                   /\ dists' = dists
                   /\ run' = [run EXCEPT ![p] =
                        Exit([r0 EXCEPT !.stderr = "InvalidViewerCertificate"],
                             1, UpdateErrorLine("InvalidViewerCertificate"))]
              [] o = "request" /\ accepted /\ valid ->
                   /\ dists' = ServiceApply(id, doc)
                   /\ run' = [run EXCEPT ![p] =
                        IF report
                        THEN Exit([r0 EXCEPT !.applied = TRUE, !.reported = TRUE,
                                             !.okCalls = @ \cup {"update"}], 0, NoErr)
                        ELSE Exit([r0 EXCEPT !.applied = TRUE,
                                             !.okCalls = @ \cup {"update"}],
                                  1, [prefix |-> "Error", detail |-> "Exception"])]
    /\ UNCHANGED <<tmpfile, extCount>>

\* another actor changes a distribution out of band; the service gives the
\* distribution a new ETag
External ==
    /\ extCount < MaxExternal
    /\ \E i \in DOMAIN dists, e \in ExternalEdits :
         /\ DictSet(dists[i].config, e[1], e[2]) # dists[i].config
         /\ dists' = [dists EXCEPT ![i] =
                        [@ EXCEPT !.config = DictSet(@, e[1], e[2]), !.etag = @ + 1]]
    /\ extCount' = extCount + 1
    /\ UNCHANGED <<run, tmpfile>>

Step(p) ==
    \/ CheckEnv(p)
    \/ ListDistributions(p)
    \/ GetDistributionConfig(p)
    \/ MutateConfig(p)
    \/ WriteTmp(p)
    \/ UpdateDistribution(p)

Next ==
    \/ \E p \in Proc : Step(p)
    \/ External

Spec == Init /\ [][Next]_vars

\* ================================================================ claims
Started(p) == run[p].pc # "off"
Updated(p) == run[p].calls.update >= 1       \* the update call was issued
TargetEtag(p) == dists[IndexOf(run[p].dist_id)].etag
PassThrough(doc) == Keys(doc) \ {"ViewerCertificate", "Aliases"}

\* C1: when a run's update call is processed while the distribution's current
\* ETag differs from the ETag the run got from get-distribution-config, the
\* update is not applied and the remote state stays as the external actor
\* left it; the update is applied only when the token still matches.
C1_NoLostUpdate ==
    [][\A p \in Proc :
         (run[p].pc = "update" /\ run'[p].pc # "update") =>
            /\ TargetEtag(p) # run[p].fetched.ifmatch
                  => (dists' = dists /\ ~run'[p].applied)
            /\ (dists' # dists \/ run'[p].applied)
                  => TargetEtag(p) = run[p].fetched.ifmatch]_vars

C1_Witness ==
    \E p \in Proc :
        /\ run[p].pc = "done" /\ Updated(p)
        /\ run[p].tokenAtUpdate # run[p].fetched.ifmatch
        /\ run[p].stderr = "PreconditionFailed"
        /\ ~run[p].applied
        /\ dists[IndexOf(run[p].dist_id)].config # run[p].sent.doc

\* C2: the document submitted in the update call equals the fetched document
\* on every key other than ViewerCertificate and Aliases: none is added,
\* removed or changed.
C2_OtherKeysUntouched ==
    \A p \in Proc :
        Updated(p) =>
            /\ PassThrough(run[p].sent.doc) = PassThrough(run[p].fetched.doc)
            /\ \A k \in PassThrough(run[p].fetched.doc) :
                   Get(run[p].sent.doc, k) = Get(run[p].fetched.doc, k)

C2_Witness ==
    \E p \in Proc :
        /\ Updated(p)
        /\ HasKey(run[p].fetched.doc, "ViewerCertificate")
        /\ Get(run[p].sent.doc, "ViewerCertificate") # Get(run[p].fetched.doc, "ViewerCertificate")
        /\ Get(run[p].sent.doc, "Enabled") = Scalar("false")
        /\ PassThrough(run[p].sent.doc) = {"CallerReference", "Enabled"}

\* C3: when ACM_CERTIFICATE_ARN is absent the program ends right after the
\* check with a non-zero exit code, having issued no list, get-config or
\* update call and having had no other side effect.
C3_MissingArnHalts ==
    \A p \in Proc :
        (run[p].CERT_ARN = ENV_UNSET /\ run[p].pc \notin {"off", "check_env"}) =>
            /\ run[p].pc = "done"
            /\ run[p].exit # 0 /\ run[p].exit # -1
            /\ run[p].calls = [list |-> 0, get |-> 0, update |-> 0]
            /\ ~run[p].wroteTmp /\ ~run[p].mutated /\ ~run[p].applied
            /\ tmpfile = NoFile

C3_Witness ==
    \E p \in Proc :
        /\ run[p].CERT_ARN = ENV_UNSET
        /\ run[p].pc = "done" /\ run[p].exit = 1 /\ run[p].from = "check_env"

\* C4: when the listing has no entry whose comment is the target comment, the
\* resolver reports not-found and the run ends with exit code 1 after exactly
\* one (list) call: no get-config call, no mutation, no temp-file write, no
\* update call.
NoMatch == \A i \in DOMAIN dists : dists[i].Comment # DISTRIBUTION_COMMENT

C4_LookupMiss ==
    \A p \in Proc :
        (run[p].listOutcome \in {"ok", "ok_noitems"} /\ NoMatch) =>
            /\ run[p].pc = "done" /\ run[p].exit = 1
            /\ run[p].err.prefix = "Error: Could not find distribution with comment"
            /\ run[p].calls = [list |-> 1, get |-> 0, update |-> 0]
            /\ ~run[p].mutated /\ ~run[p].wroteTmp /\ ~run[p].applied

\* C5: when the update call is rejected for a stale token, the program exits
\* with code 1, prints the error stream of the update call, and issues no
\* further call (no second get-config, no second update).
C5_StaleTokenFails ==
    /\ [](\A p \in Proc :
            (Updated(p) /\ run[p].stderr = "PreconditionFailed") =>
                /\ run[p].pc = "done" /\ run[p].exit = 1
                /\ run[p].err.detail = run[p].stderr
                /\ run[p].err.prefix = "Error updating distribution"
                /\ run[p].calls = [list |-> 1, get |-> 1, update |-> 1])
    /\ [][\A p \in Proc :
            run[p].stderr = "PreconditionFailed" => run'[p] = run[p]]_vars

C5_Witness ==
    \E p \in Proc :
        /\ run[p].stderr = "PreconditionFailed"
        /\ run[p].tokenAtUpdate # run[p].sent.ifmatch
        /\ run[p].pc = "done" /\ run[p].exit = 1

\* C6: the update call is made with the identifier the resolver returned in
\* this run and with an if-match value equal to the ETag that this run's
\* get-config call returned for that identifier.
C6_UpdateArguments ==
    \A p \in Proc :
        Updated(p) =>
            /\ run[p].resolved # ""
            /\ run[p].sent.id = run[p].resolved
            /\ run[p].fetched.id = run[p].resolved
            /\ run[p].sent.ifmatch = run[p].fetched.ifmatch

C6_Witness ==
    \E p \in Proc :
        Updated(p) /\ run[p].sent.id = "E2" /\ run[p].sent.ifmatch = 2

\* C7: whatever ViewerCertificate block the fetched configuration had, the
\* submitted block is exactly {ACMCertificateArn = the given ARN,
\* SSLSupportMethod = sni-only, MinimumProtocolVersion = TLSv1.2_2021,
\* CertificateSource = acm} and keeps no field of the previous block.
C7_ViewerCertificateReplaced ==
    \A p \in Proc :
        Updated(p) =>
            /\ Cardinality({i \in DOMAIN run[p].sent.doc :
                              run[p].sent.doc[i][1] = "ViewerCertificate"}) = 1
            /\ LET vc == Get(run[p].sent.doc, "ViewerCertificate")
               IN /\ DOMAIN vc = {"ACMCertificateArn", "SSLSupportMethod",
                                  "MinimumProtocolVersion", "CertificateSource"}
                  /\ vc.ACMCertificateArn = run[p].CERT_ARN
                  /\ vc.SSLSupportMethod = "sni-only"
                  /\ vc.MinimumProtocolVersion = "TLSv1.2_2021"
                  /\ vc.CertificateSource = "acm"

C7_Witness ==
    \E p \in Proc :
        /\ Updated(p)
        /\ HasKey(run[p].fetched.doc, "ViewerCertificate")
        /\ Get(run[p].fetched.doc, "ViewerCertificate") = OldCert

\* C8: the submitted alias block has Quantity equal to the length of the
\* domain list and Items equal to the domain list in its order; no alias
\* configured before survives.
C8_AliasesReplaced ==
    \A p \in Proc :
        Updated(p) =>
            /\ Cardinality({i \in DOMAIN run[p].sent.doc :
                              run[p].sent.doc[i][1] = "Aliases"}) = 1
            /\ LET a == Get(run[p].sent.doc, "Aliases")
               IN /\ DOMAIN a = {"Quantity", "Items"}
                  /\ a.Quantity = Len(DOMAIN_NAMES)
                  /\ Len(a.Items) = Len(DOMAIN_NAMES)
                  /\ \A i \in 1..Len(DOMAIN_NAMES) : a.Items[i] = DOMAIN_NAMES[i]
                  /\ \A i \in DOMAIN a.Items :
                        a.Items[i] \notin {"old.example.com", "ext.example.com"}

C8_Witness ==
    \E p \in Proc :
        /\ Updated(p)
        /\ HasKey(run[p].fetched.doc, "Aliases")
        /\ Get(run[p].fetched.doc, "Aliases").Quantity = 1

\* C9: a run ends with exit code 0 or 1; the code is 0 exactly when the list,
\* get-config and update calls all succeeded and the result was reported, and
\* 1 on every failure.
AllCalls == {"list", "get", "update"}

C9_ExitCodes ==
    \A p \in Proc :
        /\ run[p].pc # "done" => run[p].exit = -1
        /\ run[p].pc = "done" =>
              /\ run[p].exit \in {0, 1}
              /\ run[p].exit = 0 <=> (run[p].okCalls = AllCalls /\ run[p].reported)
              /\ run[p].err # NoErr => run[p].exit = 1
              /\ (CertArnMissing(run[p].CERT_ARN) \/ run[p].okCalls # AllCalls)
                    => run[p].exit = 1

C9_Witness ==
    \E p \in Proc :
        /\ run[p].pc = "done" /\ run[p].exit = 0
        /\ run[p].okCalls = AllCalls /\ run[p].reported /\ run[p].applied

\* C10: a run passes through START, DISTRIBUTION_FOUND, CONFIG_FETCHED,
\* CONFIG_MUTATED, SUBMITTED in this order, without skipping or going back,
\* and may go to FAILED from any of the first four; each of the three calls is
\* issued at most once, the update only after list and get-config succeeded.
State(r) ==
    CASE r.pc = "off" -> "NOT_STARTED"
      [] r.pc \in {"check_env", "list"} -> "START"
      [] r.pc = "get_config" -> "DISTRIBUTION_FOUND"
      [] r.pc = "mutate" -> "CONFIG_FETCHED"
      [] r.pc \in {"write_tmp", "update"} -> "CONFIG_MUTATED"
      [] r.pc = "done" /\ r.exit = 0 -> "SUBMITTED"
      [] OTHER -> "FAILED"

Edges ==
    { <<"START", "DISTRIBUTION_FOUND">>, <<"DISTRIBUTION_FOUND", "CONFIG_FETCHED">>,
      <<"CONFIG_FETCHED", "CONFIG_MUTATED">>, <<"CONFIG_MUTATED", "SUBMITTED">> }
    \cup { <<s, "FAILED">> : s \in {"START", "DISTRIBUTION_FOUND",
                                    "CONFIG_FETCHED", "CONFIG_MUTATED"} }

C10_LinearFlow ==
    /\ [][\A p \in Proc :
            \/ State(run'[p]) = State(run[p])
            \/ <<State(run[p]), State(run'[p])>> \in Edges]_vars
    /\ [](\A p \in Proc :
            /\ run[p].calls.list <= 1
            /\ run[p].calls.get <= 1
            /\ run[p].calls.update <= 1
            /\ run[p].calls.get >= 1 => "list" \in run[p].okCalls
            /\ Updated(p) => /\ {"list", "get"} \subseteq run[p].okCalls
                             /\ run[p].resolved # ""
                             /\ run[p].mutated /\ run[p].wroteTmp)

C10_Witness ==
    \E p \in Proc :
        /\ State(run[p]) = "SUBMITTED"
        /\ run[p].calls = [list |-> 1, get |-> 1, update |-> 1]

\* C11: a failed listing call is followed by no get-config and no update call;
\* a failed get-config call is followed by no mutation, no temp-file write and
\* no update call; both end the run FAILED with exit code 1, without a retry.
ListFailed(p) == run[p].listOutcome \in {"fail", "malformed"}
GetFailed(p) == run[p].getOutcome \in {"fail", "malformed"}

C11_ErrorsAreTerminal ==
    \A p \in Proc :
        /\ ListFailed(p) =>
              /\ State(run[p]) = "FAILED" /\ run[p].exit = 1
              /\ run[p].calls = [list |-> 1, get |-> 0, update |-> 0]
              /\ ~run[p].mutated /\ ~run[p].wroteTmp
        /\ GetFailed(p) =>
              /\ State(run[p]) = "FAILED" /\ run[p].exit = 1
              /\ run[p].calls = [list |-> 1, get |-> 1, update |-> 0]
              /\ ~run[p].mutated /\ ~run[p].wroteTmp /\ ~run[p].applied
              /\ tmpfile = NoFile

C11_Witness ==
    \E p \in Proc :
        /\ run[p].getOutcome = "malformed"
        /\ run[p].pc = "done" /\ run[p].exit = 1 /\ run[p].from = "get_config"

\* C12: the resolver returns the identifier of the first entry, in listing
\* order, whose comment equals the target comment, whatever follows it; it
\* returns an identifier whenever some entry matches and reports not-found
\* only when none does.
Matching == {i \in DOMAIN Items : Items[i].Comment = DISTRIBUTION_COMMENT}
NotFoundLine == "Error: Could not find distribution with comment"

C12_FirstMatch ==
    \A p \in Proc :
        /\ (run[p].listOutcome = "ok" /\ Matching # {}) =>
              /\ \E i \in Matching :
                    /\ \A j \in Matching : i <= j
                    /\ run[p].resolved = Items[i].Id
                    /\ run[p].dist_id = Items[i].Id
              /\ run[p].err.prefix # NotFoundLine
        /\ (run[p].listOutcome = "ok" /\ Matching = {}) =>
              /\ run[p].resolved = "" /\ run[p].err.prefix = NotFoundLine
        /\ run[p].err.prefix = NotFoundLine => Matching = {}

C12_Witness ==
    \E p \in Proc :
        /\ Cardinality(Matching) >= 2
        /\ run[p].listOutcome = "ok"
        /\ run[p].resolved = "E1"

\* C13: in a run that reaches the update call, the serialized mutated
\* configuration is written to the temporary file after the mutation and
\* before the update call, the update call reads that file, and the file is
\* still there with that content when the run has ended, whether the update
\* succeeded or failed.
C13_TempFile ==
    /\ [](\A p \in Proc :
            Updated(p) =>
               /\ run[p].mutated /\ run[p].wroteTmp
               /\ tmpfile # NoFile
               /\ tmpfile = json_dump(run[p].config)
               /\ run[p].sent.doc = json_loads(tmpfile)
               /\ run[p].config =
                     Mutate(json_loads(run[p].fetched.doc), run[p].CERT_ARN, DOMAIN_NAMES))
    /\ [][\A p \in Proc :
            /\ (run'[p].wroteTmp /\ ~run[p].wroteTmp) =>
                  (run[p].mutated /\ run[p].calls.update = 0 /\ tmpfile' # NoFile)
            /\ run[p].wroteTmp => tmpfile' = tmpfile]_vars

C13_Witness ==
    \E p \in Proc :
        /\ run[p].pc = "done" /\ run[p].exit = 1 /\ Updated(p)
        /\ tmpfile = json_dump(run[p].config) /\ tmpfile # NoFile
        /\ HasKey(json_loads(tmpfile), "ViewerCertificate")

\* C14 (as stated): whenever a run ends FAILED (exit code 1), the remote
\* configuration has not been changed by that run.
C14_FailedRunChangedNothing ==
    \A p \in Proc :
        (run[p].pc = "done" /\ run[p].exit = 1) => ~run[p].applied

\* C14 (amended): a run changes the remote configuration only through its
\* update call and only when the service accepted it (the token it fetched
\* still matched); a run that ends before issuing the update call, or whose
\* update call was rejected or never reached the service, has changed
\* nothing; a run that ends with exit code 0 has changed it and reported.  A
\* run may end FAILED after the service applied its update: when the command
\* fails after that, or when parsing or printing the answer fails.
C14_ChangeOnlyByAcceptedUpdate ==
    /\ [](\A p \in Proc :
            /\ run[p].applied =>
                  /\ Updated(p) /\ run[p].from = "update"
                  /\ run[p].tokenAtUpdate = run[p].fetched.ifmatch
            /\ (run[p].pc = "done" /\ ~Updated(p)) =>
                  (run[p].exit = 1 /\ ~run[p].applied)
            /\ run[p].stderr \in {"PreconditionFailed", "InvalidViewerCertificate",
                                  "Could not connect to the endpoint URL"} =>
                  (run[p].exit = 1 /\ ~run[p].applied)
            /\ (run[p].pc = "done" /\ run[p].exit = 0) =>
                  (run[p].applied /\ run[p].reported)
            /\ (run[p].pc = "done" /\ run[p].exit = 1 /\ run[p].applied) =>
                  \/ run[p].err = [prefix |-> "Error", detail |-> "Exception"]
                  \/ run[p].err = [prefix |-> "Error updating distribution",
                                   detail |-> "Read timeout on endpoint URL"])
    /\ [][dists' # dists =>
            \/ extCount' # extCount
            \/ \E p \in Proc :
                  /\ run[p].pc = "update" /\ run'[p].applied
                  /\ dists'[IndexOf(run[p].dist_id)].config = run'[p].sent.doc]_vars

C14_Witness ==
    \E p \in Proc :
        /\ run[p].pc = "done" /\ run[p].exit = 1
        /\ run[p].applied /\ ~run[p].reported
        /\ dists[IndexOf(run[p].dist_id)].config = run[p].sent.doc
        /\ run[p].sent.doc # json_loads(run[p].fetched.doc)

\* ------------------------------------------- two overlapping invocations
\* both invocations are started, each with its own environment; they share
\* the account and the temporary file
InitOverlap ==
    /\ \E arn1, arn2 \in EnvValues :
          run = [p \in Proc |-> IF p = 1 THEN Fresh(arn1, "check_env")
                                ELSE Fresh(arn2, "check_env")]
    /\ \E ds \in DistSeqs : dists = InitDists(ds)
    /\ tmpfile = NoFile
    /\ extCount = 0

SpecOverlap == InitOverlap /\ [][Next]_vars

\* C15: when two invocations overlap, the document each one submits in its
\* update call is the mutated copy of the configuration that the same
\* invocation fetched together with the if-match token it submits.
C15_OwnDocumentUnderOwnToken ==
    \A p \in Proc :
        Updated(p) =>
            /\ run[p].sent.ifmatch = run[p].fetched.ifmatch
            /\ run[p].sent.doc =
                  Mutate(json_loads(run[p].fetched.doc), run[p].CERT_ARN, DOMAIN_NAMES)

\* ------------------------------------------------ the script is run again
\* the second invocation starts when the first has ended, with the same
\* environment
Rerun ==
    /\ run[1].pc = "done"
    /\ run[2].pc = "off"
    /\ run' = [run EXCEPT ![2] = Fresh(run[1].CERT_ARN, "check_env")]
    /\ UNCHANGED <<dists, tmpfile, extCount>>

NextRerun ==
    \/ Next
    \/ Rerun

SpecRerun == Init /\ [][NextRerun]_vars

\* C16: the mutation is idempotent: a second successful run, started after
\* the first with the same certificate reference and domain list and fetching
\* exactly what the first run's update produced (no other actor touched the
\* distribution in between), submits the very document the first run
\* submitted, in all its keys.
SecondAfterFirst(p, q) ==
    /\ p # q
    /\ run[p].pc = "done" /\ run[p].exit = 0
    /\ run[q].pc = "done" /\ run[q].exit = 0
    /\ run[q].fetched.id = run[p].sent.id
    /\ run[q].fetched.ifmatch = run[p].tokenAtUpdate + 1

C16_Idempotent ==
    \A p, q \in Proc :
        SecondAfterFirst(p, q) =>
            /\ json_loads(run[q].fetched.doc) = run[p].sent.doc
            /\ run[q].sent.doc = run[p].sent.doc
            /\ Mutate(run[p].sent.doc, run[p].CERT_ARN, DOMAIN_NAMES) = run[p].sent.doc
            /\ dists[IndexOf(run[q].sent.id)].etag = run[q].tokenAtUpdate + 1
                  => dists[IndexOf(run[q].sent.id)].config = run[p].sent.doc

C16_Witness ==
    \E p, q \in Proc :
        /\ SecondAfterFirst(p, q)
        /\ HasKey(run[p].fetched.doc, "ViewerCertificate")
        /\ Get(run[p].fetched.doc, "ViewerCertificate") = OldCert
        /\ dists[IndexOf(run[q].sent.id)].config = run[p].sent.doc
        /\ dists[IndexOf(run[q].sent.id)].etag = 3

\* ------------------------------------------------------------ progress
\* every call returns or fails, and the interpreter executes the next
\* statement: a started invocation keeps taking steps while it has one
LiveSpec == Spec /\ \A p \in Proc : WF_vars(Step(p))

\* C17: every started run eventually ends, SUBMITTED or FAILED, and once it
\* has ended it issues no further call and its state does not change.
C17_Terminates ==
    /\ \A p \in Proc :
          Started(p) ~> (run[p].pc = "done" /\ State(run[p]) \in {"SUBMITTED", "FAILED"})
    /\ [][\A p \in Proc : run[p].pc = "done" => run'[p] = run[p]]_vars

C17_Witness ==
    \E p \in Proc :
        /\ State(run[p]) = "FAILED"
        /\ run[p].stderr = "PreconditionFailed"
        /\ extCount = MaxExternal

====
